---- MODULE Spec2Model ----
(***************************************************************************)
(* bisection-method.py: the bisection root finder bisection_method, the    *)
(* fixed target function f, main and the module-level guard.               *)
(*                                                                         *)
(* Numbers.  The program computes with Python floats (IEEE-754 binary64:   *)
(* 53 significant bits, round to nearest with ties to even, gradual        *)
(* underflow).  The model computes with a binary floating-point format of  *)
(* the same kind and a smaller size: a number is an integer count of the   *)
(* smallest positive value 2^-EBits, and it is a value of the format when  *)
(* its magnitude has at most PBits significant bits.  Every arithmetic     *)
(* operation of the code is the exact operation followed by one rounding   *)
(* (Fl).  Overflow to infinity and NaN are outside the model: the inputs   *)
(* are small enough that neither arises.                                   *)
(***************************************************************************)
EXTENDS Integers, Sequences, FiniteSets

\* significant bits of the float format (53 for binary64)
PBits == 4
\* the smallest positive float is 2^-EBits (2^-1074 for binary64)
EBits == 6
\* largest max_iterations an arbitrary caller passes
MaxIter == 8

RECURSIVE Pow2(_)
Pow2(n) == IF n = 0 THEN 1 ELSE 2 * Pow2(n - 1)

\* the number 1.0, counted in units of the smallest positive float
Unit == Pow2(EBits)

FromInt(k) == k * Unit

Abs(x) == IF x < 0 THEN -x ELSE x

\* N/D (N >= 0, D > 0) rounded to the nearest integer, ties to the even one
NearestEven(N, D) ==
    LET q == N \div D
        r == N % D
    IN  IF 2 * r < D THEN q
        ELSE IF 2 * r > D THEN q + 1
        ELSE IF q % 2 = 0 THEN q ELSE q + 1

\* N/D (N >= 0, D > 0) rounded to PBits significant bits, ties to even
RECURSIVE RoundMag(_, _)
RoundMag(N, D) ==
    IF N < Pow2(PBits) * D THEN NearestEven(N, D) ELSE 2 * RoundMag(N, 2 * D)

\* the float nearest to the real number N/D
Fl(N, D) == IF N < 0 THEN -RoundMag(-N, D) ELSE RoundMag(N, D)

IsFloat(n) == Fl(n, 1) = n

\* float +, -, *, /2 and **3
Add(x, y) == Fl(x + y, 1)
Sub(x, y) == Fl(x - y, 1)
Mul(x, y) == Fl(x * y, Unit)
Half(x) == Fl(x, 2)
Pow3(x) == Fl(x * x * x, Unit * Unit)

\* def f(x): return x**3 + 4*x, with its second term dropped to a constant
f_NoX(x) == Add(Pow3(x), FromInt(4))

\* def f(x): return x**3 + 4*x
f(x) == Add(Pow3(x), Mul(FromInt(4), x))

\* the callables a caller injects as the parameter f
Functions == {"cubic", "ident", "sq1", "pow3", "sqm2"}

\* f(x) for the injected callable named fn
Apply(fn, x) ==
    CASE fn = "cubic" -> f(x)
      [] fn = "ident" -> x
      [] fn = "sq1"   -> Add(Mul(x, x), FromInt(1))
      [] fn = "pow3"  -> Pow3(x)
      [] fn = "sqm2"  -> Sub(Mul(x, x), FromInt(2))

\* 1e-15 of "abs(f_mid) < 1e-15", placed on the model's grid above its
\* smallest positive value, as 1e-15 lies above 2^-1074
ExactRootEps == 2

\* main's scenario: a, b = -2, 2; tolerance = 1e-6; max_iterations = 50
RefLow == -2
RefHigh == 2
RefMaxIterations == 50
\* 1e-6 placed on the model's grid
RefTolerance == Unit \div 4

RefArgs == [f |-> "cubic", a |-> FromInt(RefLow), b |-> FromInt(RefHigh),
            tolerance |-> RefTolerance, max_iterations |-> RefMaxIterations]

\* bounds and tolerances an arbitrary caller passes
Bounds == {FromInt(-2), FromInt(-1), -(Unit \div 4), 0, FromInt(1), FromInt(2)}
Tolerances == {0, RefTolerance, Unit \div 2, FromInt(8)}
Iterations == -1 .. MaxIter

NoArgs == [f |-> "cubic", a |-> 0, b |-> 0, tolerance |-> 0, max_iterations |-> 0]
NoResult == [root |-> 0, history |-> << >>]

VARIABLES
    top,        \* the caller's position: start, caller, main, exit
    script,     \* the file was executed directly
    caught,     \* main's except clause ran
    pc,         \* position in bisection_method
    args,       \* the arguments of the call
    a, b,       \* the bracket (parameters, reassigned by the loop)
    i,          \* passes of the for loop completed without a break
    iteration, midpoint, f_mid, error, history,
    assigned,   \* local names that have been bound
    banner,     \* the loop's closing message
    exc,        \* the exception raised, if any
    result      \* the (root, history) pair returned

vars == << top, script, caught, pc, args, a, b, i, iteration, midpoint,
           f_mid, error, history, assigned, banner, exc, result >>

locals == << i, iteration, midpoint, f_mid, error, history, assigned,
             banner, exc, result >>

Init ==
    /\ top = "start" /\ script = FALSE /\ caught = FALSE
    /\ pc = "idle" /\ args = NoArgs
    /\ a = 0 /\ b = 0 /\ i = 0 /\ iteration = 0
    /\ midpoint = 0 /\ f_mid = 0 /\ error = 0
    /\ history = << >> /\ assigned = {}
    /\ banner = "none" /\ exc = "none" /\ result = NoResult

\* a call bisection_method(fn, x, y, tol, n) enters the function
Enter(who, actual) ==
    /\ top' = who
    /\ pc' = "entry"
    /\ args' = actual
    /\ a' = actual.a
    /\ b' = actual.b
    /\ UNCHANGED locals

\* an importing caller calls bisection_method with arguments of its own
Call ==
    /\ top = "start"
    /\ \E fn \in Functions, x \in Bounds, y \in Bounds,
          tol \in Tolerances, n \in Iterations :
          Enter("caller", [f |-> fn, a |-> x, b |-> y, tolerance |-> tol,
                           max_iterations |-> n])
    /\ UNCHANGED << script, caught >>

\* main(), up to its call of bisection_method
main ==
    /\ top = "start"
    /\ Enter("main", RefArgs)
    /\ UNCHANGED caught

\* an importing caller calls main()
Main == main /\ UNCHANGED script

\* the names the module-level guard compares
NameError == "<class 'NameError'>"
ModuleGuard == NameError = "__main__"

\* the file is executed directly: if NameError == "__main__": main()
ModuleRun ==
    /\ top = "start"
    /\ script' = TRUE
    /\ IF ModuleGuard
       THEN main
       ELSE /\ top' = "exit"
            /\ UNCHANGED << caught, pc, args, a, b >>
            /\ UNCHANGED locals

\* if f(a) * f(b) >= 0, with the comparison weakened to > 0
BadBracket_Strict(fn, x, y) == Mul(Apply(fn, x), Apply(fn, y)) > 0

\* if f(a) * f(b) >= 0
BadBracket(fn, x, y) == Mul(Apply(fn, x), Apply(fn, y)) >= 0

\* the precondition check, then history = [] and iteration = 0
Precheck ==
    /\ pc = "entry"
    /\ IF BadBracket(args.f, a, b)
       THEN /\ pc' = "raised"
            /\ exc' = "ValueError"
            /\ UNCHANGED << history, iteration, assigned >>
       ELSE /\ pc' = "loop"
            /\ history' = << >>
            /\ iteration' = 0
            /\ assigned' = {"history", "iteration"}
            /\ UNCHANGED exc
    /\ UNCHANGED << top, script, caught, args, a, b, i, midpoint, f_mid,
                    error, banner, result >>

\* midpoint = (a + b) / 2, with the division left out
Midpoint_NoHalf(x, y) == Add(x, y)

\* midpoint = (a + b) / 2
Midpoint(x, y) == Half(Add(x, y))

\* error = abs(b - a)
Width(x, y) == Abs(Sub(y, x))

\* if abs(f_mid) < 1e-15, with an exact comparison to zero instead
IsExactRoot_ZeroOnly(fm) == fm = 0

\* if abs(f_mid) < 1e-15
IsExactRoot(fm) == Abs(fm) < ExactRootEps

\* if error < tolerance, with the operands swapped
Converged_Swapped(e, tol) == tol < e

\* if error < tolerance
Converged(e, tol) == e < tol

\* if f(a) * f_mid < 0, with the comparison turned round
RootInLower_Flipped(fn, x, fm) == Mul(Apply(fn, x), fm) > 0

\* if f(a) * f_mid < 0
RootInLower(fn, x, fm) == Mul(Apply(fn, x), fm) < 0

\* for i in range(max_iterations), running one pass too many
MorePasses_OffByOne(done, n) == done <= n

\* for i in range(max_iterations): another pass follows
MorePasses(done, n) == done < n

\* one pass of the for loop body
LoopPass ==
    /\ pc = "loop"
    /\ MorePasses(i, args.max_iterations)
    /\ LET m  == Midpoint(a, b)
           fm == Apply(args.f, m)
           e  == Width(a, b)
       IN  /\ midpoint' = m
           /\ f_mid' = fm
           /\ error' = e
           /\ assigned' = assigned \cup {"i", "midpoint", "f_mid", "error"}
           /\ history' = Append(history,
                  [iteration |-> iteration, a |-> a, b |-> b, midpoint |-> m,
                   f_mid |-> fm, error |-> e])
           /\ IF IsExactRoot(fm)
              THEN /\ banner' = "exact"
                   /\ pc' = "return"
                   /\ UNCHANGED << a, b, i, iteration >>
              ELSE IF Converged(e, args.tolerance)
              THEN /\ banner' = "converged"
                   /\ pc' = "return"
                   /\ UNCHANGED << a, b, i, iteration >>
              ELSE /\ IF RootInLower(args.f, a, fm)
                      THEN b' = m /\ a' = a
                      ELSE a' = m /\ b' = b
                   /\ iteration' = iteration + 1
                   /\ i' = i + 1
                   /\ pc' = "loop"
                   /\ UNCHANGED banner
    /\ UNCHANGED << top, script, caught, args, exc, result >>

\* the loop's else clause: range(max_iterations) is used up without a break
LoopElse ==
    /\ pc = "loop"
    /\ ~MorePasses(i, args.max_iterations)
    /\ banner' = "max"
    /\ pc' = "return"
    /\ UNCHANGED << top, script, caught, args, a, b, i, iteration, midpoint,
                    f_mid, error, history, assigned, exc, result >>

\* return midpoint, history
Return ==
    /\ pc = "return"
    /\ IF "midpoint" \in assigned
       THEN /\ result' = [root |-> midpoint, history |-> history]
            /\ pc' = "done"
            /\ UNCHANGED exc
       ELSE /\ exc' = "UnboundLocalError"
            /\ pc' = "raised"
            /\ UNCHANGED result
    /\ UNCHANGED << top, script, caught, args, a, b, i, iteration, midpoint,
                    f_mid, error, history, assigned, banner >>

\* main after the call: the summary, or one of its except clauses
MainFinish ==
    /\ top = "main"
    /\ pc \in {"done", "raised"}
    /\ caught' = (pc = "raised")
    /\ top' = "exit"
    /\ UNCHANGED << script, pc, args, a, b >>
    /\ UNCHANGED locals

Next ==
    \/ Call
    \/ Main
    \/ ModuleRun
    \/ Precheck
    \/ LoopPass
    \/ LoopElse
    \/ Return
    \/ MainFinish

Spec == Init /\ [][Next]_vars

TypeOK ==
    /\ top \in {"start", "caller", "main", "exit"}
    /\ pc \in {"idle", "entry", "loop", "return", "done", "raised"}
    /\ IsFloat(a) /\ IsFloat(b) /\ IsFloat(midpoint) /\ IsFloat(error)

(***************************************************************************)
(* The claims.                                                             *)
(***************************************************************************)

Rec(k) == history[k]
Last == history[Len(history)]
\* f(x) * f(y) as the code computes it, for the call's f
Product(x, y) == Mul(Apply(args.f, x), Apply(args.f, y))
Sign(x) == IF x < 0 THEN -1 ELSE IF x > 0 THEN 1 ELSE 0
\* the call's own bracket passes the precondition
Bracketed == Product(args.a, args.b) < 0
\* the for statement has been left
AfterLoop == pc \in {"return", "done"} \/ (pc = "raised" /\ exc = "UnboundLocalError")
\* the step is one pass of the loop body
Pass == pc = "loop" /\ Len(history') = Len(history) + 1

\* C1: when f(a) * f(b) >= 0 the call raises ValueError before the first
\* pass: no record is created, no midpoint is computed, nothing is returned.
C1_BadBracketRaises ==
    (pc \notin {"idle", "entry"} /\ Product(args.a, args.b) >= 0)
        => /\ pc = "raised"
           /\ exc = "ValueError"
           /\ history = << >>
           /\ "midpoint" \notin assigned
           /\ result = NoResult

C1_Witness ==
    /\ pc = "raised" /\ exc = "ValueError"
    /\ args.f = "sq1" /\ args.a = FromInt(-2) /\ args.b = FromInt(2)

\* C2: once the precondition passes, for every max_iterations (0 and
\* negative values included) the call returns a (root, history) pair whose
\* history has at least 1 and at most max_iterations entries.
C2_AlwaysReturnsPair ==
    (pc \in {"done", "raised"} /\ Bracketed)
        => /\ pc = "done"
           /\ result = [root |-> midpoint, history |-> history]
           /\ Len(result.history) >= 1
           /\ Len(result.history) <= args.max_iterations

\* C3: every record of the history has bounds with f(a) * f(b) < 0: f(a)
\* and f(b) are nonzero and of opposite signs, so the sign change is still
\* bracketed at entry to every pass.
C3_BracketInvariant ==
    \A k \in 1 .. Len(history) :
        Sign(Apply(args.f, Rec(k).a)) * Sign(Apply(args.f, Rec(k).b)) < 0

C5_ExactRootStops ==
    \A k \in 1 .. Len(history) :
        Abs(Rec(k).f_mid) < ExactRootEps
            => /\ k = Len(history)
               /\ pc \in {"return", "done"}
               /\ banner = "exact"
               /\ a = Rec(k).a /\ b = Rec(k).b
               /\ pc = "done" =>
                      result = [root |-> Rec(k).midpoint, history |-> history]

C5_Witness ==
    /\ pc = "done" /\ banner = "exact"
    /\ args.f = "ident" /\ args.a = FromInt(-1) /\ args.b = FromInt(1)
    /\ args.tolerance = 0
    /\ Len(result.history) = 1 /\ result.root = 0

\* C6: a pass with |f(midpoint)| >= 1e-15 and error < tolerance ends the
\* run there with its midpoint as the root and its record as the last one;
\* every record before the last has error >= tolerance and
\* |f_mid| >= 1e-15.
C6_ConvergenceStops ==
    /\ \A k \in 1 .. Len(history) :
           (Abs(Rec(k).f_mid) >= ExactRootEps
                /\ Rec(k).error < args.tolerance)
               => /\ k = Len(history)
                  /\ pc \in {"return", "done"}
                  /\ banner = "converged"
                  /\ pc = "done" =>
                         result = [root |-> Rec(k).midpoint,
                                   history |-> history]
    /\ \A k \in 1 .. Len(history) - 1 :
           /\ Rec(k).error >= args.tolerance
           /\ Abs(Rec(k).f_mid) >= ExactRootEps

C6_Witness ==
    /\ pc = "done" /\ banner = "converged"
    /\ Len(history) >= 3
    /\ Abs(Last.f_mid) >= ExactRootEps
    /\ Last.error < args.tolerance
    /\ result.root = Last.midpoint

\* C7: when max_iterations >= 1 and no pass meets the exact-root or the
\* tolerance condition, the call ends without an error, the history has
\* exactly max_iterations records and the root returned is the midpoint of
\* the last record.
C7_Exhaustion ==
    (/\ AfterLoop
     /\ args.max_iterations >= 1
     /\ \A k \in 1 .. Len(history) :
            /\ Abs(Rec(k).f_mid) >= ExactRootEps
            /\ Rec(k).error >= args.tolerance)
        => /\ pc # "raised"
           /\ Len(history) = args.max_iterations
           /\ midpoint = Last.midpoint
           /\ pc = "done" =>
                  result = [root |-> Last.midpoint, history |-> history]

C7_Witness ==
    /\ pc = "done" /\ banner = "max"
    /\ args.max_iterations >= 2
    /\ Len(result.history) = args.max_iterations
    /\ result.root = Last.midpoint
    /\ \A k \in 1 .. Len(history) :
           /\ Abs(Rec(k).f_mid) >= ExactRootEps
           /\ Rec(k).error >= args.tolerance

\* C8: for f(x) = x^3 + 4x, bracket [-2, 2], tolerance 1e-6 and
\* max_iterations 50 the root returned is within the tolerance of 0.0 and
\* the history has at most 50 records.
C8_ReferenceRun ==
    (args = RefArgs /\ pc = "done")
        => /\ Abs(result.root - 0) <= RefTolerance
           /\ Len(result.history) <= RefMaxIterations

C8_Witness ==
    /\ top = "main" /\ args = RefArgs /\ pc = "done"
    /\ Len(result.history) >= 1

\* C9: executed directly, the program invokes main, which calls
\* bisection_method with f, the bracket [-2, 2], tolerance 1e-6 and
\* max_iterations 50.
C9_ScriptRunsScenario ==
    (script /\ top = "exit")
        => /\ pc \in {"done", "raised"}
           /\ args = RefArgs

\* C10 as stated: on a pass that does not end the run exactly one bound
\* changes and becomes the pass's midpoint (b when f(a) * f_mid < 0, else
\* a); on a pass that ends the run neither bound changes.
C10_OneBoundChanges ==
    [][Pass =>
         IF pc' = "loop"
         THEN \/ /\ Mul(Apply(args.f, a), f_mid') < 0
                 /\ b' = midpoint' /\ a' = a /\ b' # b
              \/ /\ Mul(Apply(args.f, a), f_mid') >= 0
                 /\ a' = midpoint' /\ b' = b /\ a' # a
         ELSE a' = a /\ b' = b]_vars

\* C10 as amended: on a pass that does not end the run exactly one bound is
\* assigned the pass's midpoint (b when f(a) * f_mid < 0, else a) and the
\* other bound is unchanged; on a pass that ends the run neither bound
\* changes.  The assigned bound keeps its value when rounding makes the
\* midpoint equal to it.
C10_OneBoundAssigned ==
    [][Pass =>
         IF pc' = "loop"
         THEN \/ /\ Mul(Apply(args.f, a), f_mid') < 0
                 /\ b' = midpoint' /\ a' = a
              \/ /\ Mul(Apply(args.f, a), f_mid') >= 0
                 /\ a' = midpoint' /\ b' = b
         ELSE a' = a /\ b' = b]_vars

C10_Witness ==
    /\ pc = "loop" /\ Len(history) >= 2
    /\ b = Last.midpoint /\ b # Last.b /\ a = Last.a
    /\ a = Rec(1).midpoint /\ a # Rec(1).a
====
